---------------------------- MODULE Spec2Model ----------------------------
(***************************************************************************)
(* A model of perf_report_generator.py: the command driver (download,      *)
(* aggregate and combined modes), the table parser, the snapshot           *)
(* (pickle) round trip and the aggregator that groups, sums, sorts and     *)
(* serializes benchmark results to CSV.                                    *)
(*                                                                         *)
(* Text (DOM cell texts, table ids, keys, lines of the commits file) is a  *)
(* sequence of one-character strings, so that slicing, replace, split and  *)
(* join are computed character by character.  A float is an integer with   *)
(* a bounded binary mantissa: every arithmetic result is rounded to the    *)
(* nearest representable value, ties to even, as IEEE-754 doubles are.     *)
(***************************************************************************)
EXTENDS Integers, Sequences, FiniteSets, TLC

(***************************************************************************)
(* Bounds of the model.                                                    *)
(***************************************************************************)
\* width of the mantissa of the model's floats (53 for a Python float)
MantissaBits == 3
\* number of entries (table markers and results) of an enumerated snapshot
MaxItems == 4
\* number of entries (table elements and rows) of an enumerated page
MaxPageItems == 4
\* number of lines of the commits file
MaxPairs == 3
\* number of invocations of main in one session
MaxRuns == 3

(***************************************************************************)
(* Floats.                                                                 *)
(***************************************************************************)
RECURSIVE Pow2(_)
Pow2(n) == IF n = 0 THEN 1 ELSE 2 * Pow2(n - 1)

\* the spacing of the representable values around magnitude a
RECURSIVE Quantum(_, _)
Quantum(a, q) == IF a < Pow2(MantissaBits) * q THEN q ELSE Quantum(a, 2 * q)

\* the multiple of q nearest to a, the even multiple when two are as near
RoundTo(a, q) ==
    IF 2 * (a % q) > q \/ (2 * (a % q) = q /\ (a \div q) % 2 = 1)
    THEN ((a \div q) + 1) * q
    ELSE (a \div q) * q

\* round to the nearest representable value, ties to the even mantissa
Fl(x) == IF x < 0 THEN -RoundTo(-x, Quantum(-x, 1)) ELSE RoundTo(x, Quantum(x, 1))

FAdd(a, b) == Fl(a + b)

FSub(a, b) == Fl(a - b)

\* sum(values): the running total starts at 0 and adds left to right
RECURSIVE FSum(_)
FSum(s) == IF s = <<>> THEN 0 ELSE FAdd(FSum(SubSeq(s, 1, Len(s) - 1)), s[Len(s)])

(***************************************************************************)
(* Text helpers.                                                           *)
(***************************************************************************)
Digits == {"0", "1", "2", "3", "4", "5", "6", "7", "8", "9"}

DigitValue(c) ==
    CASE c = "0" -> 0 [] c = "1" -> 1 [] c = "2" -> 2 [] c = "3" -> 3
      [] c = "4" -> 4 [] c = "5" -> 5 [] c = "6" -> 6 [] c = "7" -> 7
      [] c = "8" -> 8 [] c = "9" -> 9

\* s[:-1]
DropLast(s) == IF s = <<>> THEN <<>> ELSE SubSeq(s, 1, Len(s) - 1)

\* s.replace(',', '')
RemoveCommas(s) == SelectSeq(s, LAMBDA c : c # ",")

RECURSIVE DecimalValue(_)
DecimalValue(s) ==
    IF s = <<>> THEN 0
    ELSE 10 * DecimalValue(SubSeq(s, 1, Len(s) - 1)) + DigitValue(s[Len(s)])

AllDigits(s) == s # <<>> /\ \A i \in 1..Len(s) : s[i] \in Digits

\* float(s): raises ValueError unless s is a decimal literal
ParseFloat(s) ==
    IF AllDigits(s) THEN [raised |-> FALSE, val |-> Fl(DecimalValue(s))]
    ELSE IF s # <<>> /\ s[1] = "-" /\ AllDigits(Tail(s))
         THEN [raised |-> FALSE, val |-> Fl(-DecimalValue(Tail(s)))]
         ELSE [raised |-> TRUE, val |-> 0]

\* BenchmarkResult.parse_number
parse_number(s) == ParseFloat(RemoveCommas(s))

\* sep.join(parts)
RECURSIVE Join(_, _)
Join(sep, parts) ==
    IF parts = <<>> THEN <<>>
    ELSE IF Len(parts) = 1 THEN parts[1]
    ELSE parts[1] \o sep \o Join(sep, Tail(parts))

\* line.split(): the maximal runs of non-blank characters; word is the run
\* being read, words the runs read so far
RECURSIVE SplitFrom(_, _, _, _)
SplitFrom(line, i, word, words) ==
    IF i > Len(line) THEN (IF word = <<>> THEN words ELSE Append(words, word))
    ELSE IF line[i] = " "
         THEN SplitFrom(line, i + 1, <<>>, IF word = <<>> THEN words ELSE Append(words, word))
         ELSE SplitFrom(line, i + 1, Append(word, line[i]), words)

Split(line) == SplitFrom(line, 1, <<>>, <<>>)

(***************************************************************************)
(* The data model.  A DOM table is [id, hasBody, rows]; a row is the       *)
(* sequence of its cell texts; a page is the sequence of its tables.       *)
(***************************************************************************)
BenchTable(name, results) == [name |-> name, results |-> results]

BenchmarkResult(name, profile, scenario, backend, target, change, sig_threshold, sig_factor, before_raw, after_raw) ==
    [name |-> name, profile |-> profile, scenario |-> scenario,
     backend |-> backend, target |-> target, change |-> change,
     sig_threshold |-> sig_threshold, sig_factor |-> sig_factor,
     before_raw |-> before_raw, after_raw |-> after_raw]

NoResult == BenchmarkResult(<<>>, <<>>, <<>>, <<>>, <<>>, 0, 0, 0, 0, 0)

\* BenchmarkResult.parse_from_row: raw_row[k] of the code is raw_row[k + 1]
\* here; an index past the end raises IndexError, a bad number ValueError
parse_from_row(raw_row) ==
    IF Len(raw_row) < 11 THEN [raised |-> TRUE, res |-> NoResult]
    ELSE LET change        == parse_number(DropLast(raw_row[7]))
             sig_threshold == parse_number(DropLast(raw_row[8]))
             sig_factor    == parse_number(DropLast(raw_row[9]))
             before_raw    == parse_number(raw_row[10])
             after_raw     == parse_number(raw_row[11])
         IN  IF \/ change.raised \/ sig_threshold.raised \/ sig_factor.raised
                \/ before_raw.raised \/ after_raw.raised
             THEN [raised |-> TRUE, res |-> NoResult]
             ELSE [raised |-> FALSE,
                   res |-> BenchmarkResult(raw_row[2], raw_row[3], raw_row[4],
                                           raw_row[5], raw_row[6], change.val,
                                           sig_threshold.val, sig_factor.val,
                                           before_raw.val, after_raw.val)]

\* the loop over the rows of one table body, from row i on, bench_results
\* being the results so far: the first row that raises ends it
RECURSIVE ParseRowsFrom(_, _, _)
ParseRowsFrom(rows, i, bench_results) ==
    IF i > Len(rows) THEN [raised |-> FALSE, results |-> bench_results]
    ELSE IF parse_from_row(rows[i]).raised THEN [raised |-> TRUE, results |-> bench_results]
    ELSE ParseRowsFrom(rows, i + 1, Append(bench_results, parse_from_row(rows[i]).res))

ParseRows(rows) == ParseRowsFrom(rows, 1, <<>>)

\* the body of the try block: find_element('tbody') raises when there is none
ParseTableBody(table) ==
    IF ~table.hasBody THEN [raised |-> TRUE, results |-> <<>>]
    ELSE ParseRows(table.rows)

\* the table is appended with the rows parsed before the exception
ParseTable_KeepsPartial(table) ==
    [raised |-> FALSE, add |-> <<BenchTable(table.id, ParseTableBody(table).results)>>]

\* one iteration of the loop over the tables, with its try/except: what it
\* appends to bench_tables and whether an exception leaves the loop
ParseTable(table) ==
    LET body == ParseTableBody(table)
    IN  IF body.raised THEN [raised |-> FALSE, add |-> <<>>]
        ELSE [raised |-> FALSE, add |-> <<BenchTable(table.id, body.results)>>]

\* the loop over the tables of the page, from table i on, bench_tables being
\* the tables so far
RECURSIVE ParseTablesFrom(_, _, _)
ParseTablesFrom(page, i, bench_tables) ==
    IF i > Len(page) THEN [raised |-> FALSE, tables |-> bench_tables]
    ELSE IF ParseTable(page[i]).raised THEN [raised |-> TRUE, tables |-> bench_tables]
    ELSE ParseTablesFrom(page, i + 1, bench_tables \o ParseTable(page[i]).add)

parse_benchmark_tables(page) == ParseTablesFrom(page, 1, <<>>)

(***************************************************************************)
(* The snapshot: pickle.dump writes the list as a stream of tokens (a      *)
(* count, then per table its name, its count and ten tokens per result);   *)
(* pickle.load rebuilds the list from the stream.                          *)
(***************************************************************************)
StrTok(s) == [op |-> "str", s |-> s, n |-> 0]

FloatTok(v) == [op |-> "float", s |-> <<>>, n |-> v]

LenTok(n) == [op |-> "len", s |-> <<>>, n |-> n]

DumpResult(r) ==
    <<StrTok(r.name), StrTok(r.profile), StrTok(r.scenario), StrTok(r.backend),
      StrTok(r.target), FloatTok(r.change), FloatTok(r.sig_threshold),
      FloatTok(r.sig_factor), FloatTok(r.before_raw), FloatTok(r.after_raw)>>

RECURSIVE DumpResults(_)
DumpResults(results) ==
    IF results = <<>> THEN <<>>
    ELSE DumpResult(Head(results)) \o DumpResults(Tail(results))

DumpTable(t) == <<StrTok(t.name), LenTok(Len(t.results))>> \o DumpResults(t.results)

RECURSIVE DumpTables(_)
DumpTables(tables) ==
    IF tables = <<>> THEN <<>>
    ELSE DumpTable(Head(tables)) \o DumpTables(Tail(tables))

PickleDump(tables) == <<LenTok(Len(tables))>> \o DumpTables(tables)

\* the two raw measurements read back in each other's place
LoadResult_SwappedRaw(toks, pos) ==
    BenchmarkResult(toks[pos].s, toks[pos + 1].s, toks[pos + 2].s, toks[pos + 3].s,
                    toks[pos + 4].s, toks[pos + 5].n, toks[pos + 6].n,
                    toks[pos + 7].n, toks[pos + 9].n, toks[pos + 8].n)

LoadResult(toks, pos) ==
    BenchmarkResult(toks[pos].s, toks[pos + 1].s, toks[pos + 2].s, toks[pos + 3].s,
                    toks[pos + 4].s, toks[pos + 5].n, toks[pos + 6].n,
                    toks[pos + 7].n, toks[pos + 8].n, toks[pos + 9].n)

LoadTable(toks, pos) ==
    BenchTable(toks[pos].s,
               [k \in 1..toks[pos + 1].n |-> LoadResult(toks, pos + 2 + 10 * (k - 1))])

RECURSIVE LoadTables(_, _, _)
LoadTables(toks, pos, count) ==
    IF count = 0 THEN <<>>
    ELSE <<LoadTable(toks, pos)>>
         \o LoadTables(toks, pos + 2 + 10 * toks[pos + 1].n, count - 1)

PickleLoad(toks) == LoadTables(toks, 2, toks[1].n)

(***************************************************************************)
(* Dictionaries keep insertion order: a dict is a sequence of [key, val].  *)
(***************************************************************************)
DictHas(d, key) == \E i \in 1..Len(d) : d[i].key = key

DictGet(d, key) == d[CHOOSE i \in 1..Len(d) : d[i].key = key].val

\* d[key] = val
DictSet(d, key, val) ==
    IF DictHas(d, key)
    THEN [i \in 1..Len(d) |-> IF d[i].key = key THEN [key |-> key, val |-> val] ELSE d[i]]
    ELSE Append(d, [key |-> key, val |-> val])

\* get_or_create without its membership test: the default replaces d[key]
get_or_create_Overwrite(d, key, default) == DictSet(d, key, default)

\* the dict after get_or_create(d, key, default); the call returns d[key]
get_or_create(d, key, default) ==
    IF ~DictHas(d, key) THEN DictSet(d, key, default) ELSE d

\* the value is appended only to a list that exists already
AppendTo_CreateEmpty(d, key, value) ==
    IF DictHas(d, key) THEN DictSet(d, key, Append(DictGet(d, key), value))
    ELSE DictSet(d, key, <<>>)

\* get_or_create(d, key, []).append(value), as the dict it leaves
AppendTo(d, key, value) ==
    LET d1 == get_or_create(d, key, <<>>)
    IN  DictSet(d1, key, Append(DictGet(d1, key), value))

(***************************************************************************)
(* The aggregator.                                                         *)
(***************************************************************************)
Separator == <<":", ":">>

\* '::'.join([table.name, res.name, res.profile, res.scenario])
bench_full_name(table, res) ==
    Join(Separator, <<table.name, res.name, res.profile, res.scenario>>)

\* the body of the loop over the results: benches_results after one result
Accumulate(d, table, res) ==
    LET key    == bench_full_name(table, res)
        d1     == get_or_create(d, key, <<>>)
        inner1 == AppendTo(DictGet(d1, key), "change", res.change)
        inner2 == AppendTo(inner1, "raw_change", FSub(res.after_raw, res.before_raw))
    IN  DictSet(d1, key, inner2)

\* list.sort on elements [k, v] by the integer k: stable, ascending
RECURSIVE InsertByKey(_, _)
InsertByKey(sorted, e) ==
    IF sorted = <<>> THEN <<e>>
    ELSE IF sorted[Len(sorted)].k <= e.k THEN Append(sorted, e)
    ELSE Append(InsertByKey(DropLast(sorted), e), sorted[Len(sorted)])

RECURSIVE SortByKey(_)
SortByKey(s) ==
    IF s = <<>> THEN <<>> ELSE InsertByKey(SortByKey(DropLast(s)), s[Len(s)])

\* the order of the names of the totals as strings: 'change' < 'raw_change'
NameRank(name) == CASE name = "change" -> 0 [] name = "raw_change" -> 1

\* the totals ordered by name, descending
SortValuesByName_Descending(values) ==
    LET keyed  == [i \in 1..Len(values) |-> [k |-> -NameRank(values[i].key), v |-> values[i]]]
        sorted == SortByKey(keyed)
    IN  [i \in 1..Len(sorted) |-> sorted[i].v]

\* ordered_values.sort(key = lambda x: x[0])
SortValuesByName(values) ==
    LET keyed  == [i \in 1..Len(values) |-> [k |-> NameRank(values[i].key), v |-> values[i]]]
        sorted == SortByKey(keyed)
    IN  [i \in 1..Len(sorted) |-> sorted[i].v]

\* AggregatedBenchData.__init__: the assertion, the totals, their order
AggregatedBenchData(name, raw_values) ==
    LET values == [i \in 1..Len(raw_values) |->
                      [key |-> raw_values[i].key, val |-> FSum(raw_values[i].val)]]
    IN  [raised |-> ~(Len(raw_values) > 0), name |-> name, values |-> values,
         ordered_values |-> SortValuesByName(values)]

\* AggregatedBenchData.to_csv_line: the name, then the totals in their order
to_csv_line(a) ==
    [name |-> a.name, cols |-> [i \in 1..Len(a.ordered_values) |-> a.ordered_values[i].val]]

\* filter(lambda x: len(x[1]) > 0, benches_results.items())
filtered_results(d) == SelectSeq(d, LAMBDA x : Len(x.val) > 0)

\* map(lambda x: AggregatedBenchData(x[0], x[1]), filtered_results)
mapped_results(d) ==
    LET f == filtered_results(d)
    IN  [i \in 1..Len(f) |-> AggregatedBenchData(f[i].key, f[i].val)]

\* the rows left in the order of the dictionary
SortByChange_Unsorted(rows) == rows

\* aggregated_results.sort(key=lambda a: a.values['change'])
SortByChange(rows) ==
    LET keyed  == [i \in 1..Len(rows) |-> [k |-> DictGet(rows[i].values, "change"), v |-> rows[i]]]
        sorted == SortByKey(keyed)
    IN  [i \in 1..Len(sorted) |-> sorted[i].v]

CsvHeader == <<"Benchmark", "SumChange", "SumRawChange">>

NoCsv == [exists |-> FALSE, header |-> <<>>, rows |-> <<>>]

NoSnapshot == [exists |-> FALSE, data |-> <<>>]

\* serialize_results_to_csv: the header line, then one line per result
serialize_results_to_csv(results) ==
    [exists |-> TRUE, header |-> CsvHeader,
     rows |-> [i \in 1..Len(results) |-> to_csv_line(results[i])]]

(***************************************************************************)
(* Inputs: the commits file, the pages the site serves, the snapshots.     *)
(***************************************************************************)
BoundedSeq(S, n) == UNION {[1..k -> S] : k \in 0..n}

\* the lines of a commits file: two commit identifiers separated by blanks
CommitLine(i) == IF i % 2 = 1 THEN <<"a", " ", "b">> ELSE <<"b", " ", " ", "c">>

CommitFiles == {[i \in 1..k |-> CommitLine(i)] : k \in 0..MaxPairs}

\* read_commits_file: each line split at its blanks
read_commits_file(file) == [i \in 1..Len(file) |-> Split(file[i])]

\* a row of a comparison table: eleven cells, the first one unused
Row(name, change, before, after) ==
    <<(<<>>), name, <<"p">>, <<"s">>, <<"l">>, <<"x">>, change, <<"1", "%">>, <<"2", "x">>, before, after>>

GoodRow1 == Row(<<"c">>, <<"7", "%">>, <<"5">>, <<"7">>)

GoodRow2 == Row(<<"d">>, <<"-", "2", "%">>, <<"1", ",", "2">>, <<"5">>)

\* a row with a cell missing
ShortRow == DropLast(GoodRow1)

\* a row whose change is not a number
BadNumberRow == Row(<<"c">>, <<"x", "%">>, <<"5">>, <<"7">>)

\* the entries a page is built from: a table element (with or without a
\* body), or a row of the last table element
TableItem(id, hasBody) == [kind |-> "table", id |-> id, hasBody |-> hasBody, row |-> <<>>]

RowItem(row) == [kind |-> "row", id |-> <<>>, hasBody |-> FALSE, row |-> row]

PageItems ==
    {TableItem(<<"t">>, TRUE), TableItem(<<"u">>, TRUE), TableItem(<<"v">>, FALSE)}
    \cup {RowItem(r) : r \in {GoodRow1, GoodRow2, ShortRow, BadNumberRow}}

RECURSIVE PageFrom(_, _, _)
PageFrom(items, i, page) ==
    IF i > Len(items) THEN page
    ELSE IF items[i].kind = "table"
         THEN PageFrom(items, i + 1,
                       Append(page, [id |-> items[i].id, hasBody |-> items[i].hasBody, rows |-> <<>>]))
         ELSE PageFrom(items, i + 1, [page EXCEPT ![Len(page)].rows = Append(@, items[i].row)])

PageOf(items) == PageFrom(items, 1, <<>>)

\* rows sit in the body of a table element
WellFormedPage(items) ==
    \A i \in 1..Len(items) :
        items[i].kind = "row" =>
            /\ i > 1
            /\ items[i - 1].kind = "row" \/ items[i - 1].hasBody

Pages == {PageOf(items) : items \in {x \in BoundedSeq(PageItems, MaxPageItems) : WellFormedPage(x)}}

Timeout == [kind |-> "timeout", page |-> <<>>]

Alert == [kind |-> "alert", page |-> <<>>]

Loaded(page) == [kind |-> "page", page |-> page]

\* the two pages of the sessions of the command driver
PageOne == PageOf(<<TableItem(<<"t">>, TRUE), RowItem(GoodRow1)>>)

PageTwo ==
    PageOf(<<TableItem(<<"v">>, FALSE), TableItem(<<"t">>, TRUE), RowItem(GoodRow2), RowItem(GoodRow1)>>)

Outcomes == {Timeout, Alert, Loaded(PageOne), Loaded(PageTwo)}

\* the entries a snapshot is built from: a table, or a result of the last table
TableEntry(name) == [kind |-> "table", name |-> name, res |-> NoResult]

ResultEntry(res) == [kind |-> "result", name |-> <<>>, res |-> res]

Result(name, profile, change, before, after) ==
    BenchmarkResult(name, profile, <<"s">>, <<"l">>, <<"x">>, change, 1, 2, before, after)

Results ==
    {Result(n, <<"p">>, v[1], v[2], v[3]) :
        n \in {<<"c">>, <<"b", ":", ":", "c">>},
        v \in {<<7, 0, 7>>, <<2, 5, 7>>, <<-2, 7, 2>>}}
    \cup {Result(<<"c">>, <<"q">>, 7, 0, 7)}

SnapshotItems ==
    {TableEntry(<<"a">>), TableEntry(<<"a", ":", ":", "b">>)} \cup {ResultEntry(r) : r \in Results}

RECURSIVE TablesFrom(_, _, _)
TablesFrom(items, i, list) ==
    IF i > Len(items) THEN list
    ELSE IF items[i].kind = "table"
         THEN TablesFrom(items, i + 1, Append(list, BenchTable(items[i].name, <<>>)))
         ELSE TablesFrom(items, i + 1, [list EXCEPT ![Len(list)].results = Append(@, items[i].res)])

TablesOf(items) == TablesFrom(items, 1, <<>>)

Snapshots ==
    {TablesOf(items) : items \in {x \in BoundedSeq(SnapshotItems, MaxItems) : x = <<>> \/ x[1].kind = "table"}}

(***************************************************************************)
(* The state.                                                              *)
(***************************************************************************)
VARIABLES
    commitsFile,      \* the lines of the commits file
    web,              \* what the fetch of the i-th pair of a run ends with
    snapshotFile,     \* the snapshot file: [exists, data]
    csvFile,          \* the output CSV: [exists, header, rows]
    pc,               \* "idle" (no process), or the function the process is in
    command,          \* sys.argv[1] of the current (or last) invocation of main
    commits,          \* download_tables: the pairs read from the commits file
    idx,              \* download_tables: the position of the next pair
    tables,           \* the list of BenchTable in memory
    benches_results,  \* aggregate_tables_data: the accumulation dictionary
    ti,               \* aggregate_tables_data: the position of the current table
    ri,               \* aggregate_tables_data: the position of the next result
    exitStatus,       \* the exit status of the last process (-1: none ended yet)
    runs,             \* the number of invocations of main so far
    fetched,          \* history: the pairs fetched by the current (or last) run
    wrote,            \* history: the files opened for writing by that run
    dumped,           \* history: the list the last download run pickled
    aggregated,       \* history: the list the current (or last) run aggregated
    csvCombined,      \* history: the CSV the last combined run wrote
    csvAggregate      \* history: the CSV the last aggregate run wrote

vars ==
    <<commitsFile, web, snapshotFile, csvFile, pc, command, commits, idx, tables,
      benches_results, ti, ri, exitStatus, runs, fetched, wrote, dumped,
      aggregated, csvCombined, csvAggregate>>

files == <<commitsFile, web>>

memory == <<commits, idx, tables, benches_results, ti, ri>>

history == <<dumped, csvCombined, csvAggregate>>

NoList == [exists |-> FALSE, tables |-> <<>>]

InitProcess ==
    /\ pc = "idle"
    /\ command = "none"
    /\ commits = <<>>
    /\ idx = 1
    /\ tables = <<>>
    /\ benches_results = <<>>
    /\ ti = 1
    /\ ri = 1
    /\ exitStatus = -1
    /\ runs = 0
    /\ fetched = <<>>
    /\ wrote = {}
    /\ dumped = NoList
    /\ aggregated = NoList
    /\ csvCombined = NoCsv
    /\ csvAggregate = NoCsv

\* a session of the command driver: a commits file, a site, no output yet
Init ==
    /\ commitsFile \in CommitFiles
    /\ web \in [1..Len(commitsFile) -> Outcomes]
    /\ snapshotFile = NoSnapshot
    /\ csvFile = NoCsv
    /\ InitProcess

\* the first argument of the command line, and the mode main runs for it
Arguments == {"download", "aggregate", "commits.txt"}

\* main without its 'download' branch
Mode_NoDownloadBranch(argument) ==
    IF argument = "aggregate" THEN "aggregate" ELSE "combined"

Mode(argument) ==
    IF argument = "download" THEN "download"
    ELSE IF argument = "aggregate" THEN "aggregate"
    ELSE "combined"

\* the process ends: its memory is gone, its exit status is left
Exit(status) ==
    /\ pc' = "idle"
    /\ exitStatus' = status
    /\ commits' = <<>>
    /\ idx' = 1
    /\ tables' = <<>>
    /\ benches_results' = <<>>
    /\ ti' = 1
    /\ ri' = 1

StartProcess(mode) ==
    /\ pc = "idle"
    /\ runs < MaxRuns
    /\ \E argument \in Arguments : Mode(argument) = mode /\ command' = argument
    /\ runs' = runs + 1
    /\ exitStatus' = -1
    /\ fetched' = <<>>
    /\ wrote' = {}

\* main, 'download': execute_download_command enters download_tables
MainDownload ==
    /\ StartProcess("download")
    /\ pc' = "download_tables"
    /\ commits' = read_commits_file(commitsFile)
    /\ idx' = 1
    /\ tables' = <<>>
    /\ aggregated' = NoList
    /\ UNCHANGED <<files, snapshotFile, csvFile, benches_results, ti, ri, history>>

\* main, otherwise: the combined mode enters download_tables
MainCombined ==
    /\ StartProcess("combined")
    /\ pc' = "download_tables"
    /\ commits' = read_commits_file(commitsFile)
    /\ idx' = 1
    /\ tables' = <<>>
    /\ aggregated' = NoList
    /\ UNCHANGED <<files, snapshotFile, csvFile, benches_results, ti, ri, history>>

\* main, 'aggregate': execute_aggregate_command loads the snapshot and enters
\* aggregate_tables_data
MainAggregate ==
    /\ StartProcess("aggregate")
    /\ snapshotFile.exists
    /\ pc' = "aggregate_tables_data"
    /\ tables' = PickleLoad(snapshotFile.data)
    /\ benches_results' = <<>>
    /\ ti' = 1
    /\ ri' = 1
    /\ aggregated' = [exists |-> TRUE, tables |-> tables']
    /\ UNCHANGED <<files, snapshotFile, csvFile, commits, idx, history>>

\* a timeout that lets the wait return without an element
download_url_NoExit(outcome) ==
    [exited |-> FALSE, alert_shown |-> outcome.kind = "alert", page |-> outcome.page]

\* download_url: the wait ends with the timeout (exit(1)), an alert or the
\* tables of the page; it returns the browser and whether an alert is shown
download_url(outcome) ==
    IF outcome.kind = "timeout" THEN [exited |-> TRUE, alert_shown |-> FALSE, page |-> <<>>]
    ELSE [exited |-> FALSE, alert_shown |-> outcome.kind = "alert", page |-> outcome.page]

\* an alert taken for a failure of the run
download_benchmarks_data_AlertExits(outcome) ==
    IF download_url(outcome).exited \/ download_url(outcome).alert_shown
    THEN [exited |-> TRUE, raised |-> FALSE, tables |-> <<>>]
    ELSE [exited |-> FALSE,
          raised |-> parse_benchmark_tables(download_url(outcome).page).raised,
          tables |-> parse_benchmark_tables(download_url(outcome).page).tables]

\* download_benchmarks_data: an alert gives the empty list, a loaded page is
\* parsed; exited when download_url ended the process
download_benchmarks_data(outcome) ==
    IF download_url(outcome).exited THEN [exited |-> TRUE, raised |-> FALSE, tables |-> <<>>]
    ELSE IF download_url(outcome).alert_shown
         THEN [exited |-> FALSE, raised |-> FALSE, tables |-> <<>>]
         ELSE [exited |-> FALSE,
               raised |-> parse_benchmark_tables(download_url(outcome).page).raised,
               tables |-> parse_benchmark_tables(download_url(outcome).page).tables]

\* one iteration of the loop of download_tables
DownloadPair ==
    /\ pc = "download_tables"
    /\ idx <= Len(commits)
    /\ fetched' = Append(fetched, <<commits[idx][1], commits[idx][2]>>)
    /\ LET got == download_benchmarks_data(web[idx])
       IN  IF got.exited \/ got.raised
           THEN Exit(1)
           ELSE /\ tables' = tables \o got.tables
                /\ idx' = idx + 1
                /\ UNCHANGED <<pc, exitStatus, commits, benches_results, ti, ri>>
    /\ UNCHANGED <<files, snapshotFile, csvFile, command, runs, wrote, aggregated, history>>

\* execute_download_command after download_tables returned: pickle.dump
ExecuteDownloadDump ==
    /\ pc = "download_tables"
    /\ idx > Len(commits)
    /\ Mode(command) = "download"
    /\ snapshotFile' = [exists |-> TRUE, data |-> PickleDump(tables)]
    /\ wrote' = wrote \cup {"snapshot"}
    /\ dumped' = [exists |-> TRUE, tables |-> tables]
    /\ Exit(0)
    /\ UNCHANGED <<files, csvFile, command, runs, fetched, aggregated, csvCombined, csvAggregate>>

\* main, combined mode, after download_tables returned: aggregate_tables_data
CombinedAggregate ==
    /\ pc = "download_tables"
    /\ idx > Len(commits)
    /\ Mode(command) = "combined"
    /\ pc' = "aggregate_tables_data"
    /\ benches_results' = <<>>
    /\ ti' = 1
    /\ ri' = 1
    /\ aggregated' = [exists |-> TRUE, tables |-> tables]
    /\ UNCHANGED <<files, snapshotFile, csvFile, command, commits, idx, tables,
                   exitStatus, runs, fetched, wrote, history>>

\* aggregate_tables_data: the body of the inner loop, for one result
AggregateResult ==
    /\ pc = "aggregate_tables_data"
    /\ ti <= Len(tables)
    /\ ri <= Len(tables[ti].results)
    /\ benches_results' = Accumulate(benches_results, tables[ti], tables[ti].results[ri])
    /\ ri' = ri + 1
    /\ UNCHANGED <<files, snapshotFile, csvFile, pc, command, commits, idx, tables, ti,
                   exitStatus, runs, fetched, wrote, aggregated, history>>

\* aggregate_tables_data: the outer loop moves to the next table
AggregateNextTable ==
    /\ pc = "aggregate_tables_data"
    /\ ti <= Len(tables)
    /\ ri > Len(tables[ti].results)
    /\ ti' = ti + 1
    /\ ri' = 1
    /\ UNCHANGED <<files, snapshotFile, csvFile, pc, command, commits, idx, tables,
                   benches_results, exitStatus, runs, fetched, wrote, aggregated, history>>

\* aggregate_tables_data after the loops: filter, construct, sort, serialize
AggregateFinish ==
    /\ pc = "aggregate_tables_data"
    /\ ti > Len(tables)
    /\ LET rows == mapped_results(benches_results)
       IN  IF \E i \in 1..Len(rows) : rows[i].raised
           THEN /\ Exit(1)
                /\ UNCHANGED <<csvFile, wrote, csvCombined, csvAggregate>>
           ELSE LET csv == serialize_results_to_csv(SortByChange(rows))
                IN  /\ csvFile' = csv
                    /\ wrote' = wrote \cup {"csv"}
                    /\ csvCombined' = IF Mode(command) = "combined" THEN csv ELSE csvCombined
                    /\ csvAggregate' = IF Mode(command) = "aggregate" THEN csv ELSE csvAggregate
                    /\ Exit(0)
    /\ UNCHANGED <<files, snapshotFile, command, runs, fetched, dumped, aggregated>>

Next ==
    \/ MainDownload
    \/ MainCombined
    \/ MainAggregate
    \/ DownloadPair
    \/ ExecuteDownloadDump
    \/ CombinedAggregate
    \/ AggregateResult
    \/ AggregateNextTable
    \/ AggregateFinish

Spec == Init /\ [][Next]_vars

\* the aggregate mode on any snapshot
InitAggregate ==
    /\ commitsFile = <<>>
    /\ web = <<>>
    /\ snapshotFile \in {[exists |-> TRUE, data |-> PickleDump(t)] : t \in Snapshots}
    /\ csvFile = NoCsv
    /\ InitProcess

NextAggregate ==
    \/ MainAggregate
    \/ AggregateResult
    \/ AggregateNextTable
    \/ AggregateFinish

SpecAggregate == InitAggregate /\ [][NextAggregate]_vars

\* the download mode on one pair whose page is any page
InitParse ==
    /\ commitsFile = <<CommitLine(1)>>
    /\ web \in {<<Loaded(page)>> : page \in Pages}
    /\ snapshotFile = NoSnapshot
    /\ csvFile = NoCsv
    /\ InitProcess

NextParse ==
    \/ MainDownload
    \/ DownloadPair
    \/ ExecuteDownloadDump

SpecParse == InitParse /\ [][NextParse]_vars

(***************************************************************************)
(* Notions the properties are stated in.                                   *)
(***************************************************************************)
\* the results of a list of tables, each with the name of its table, in the
\* order of the tables and of the results within each
RECURSIVE EntriesFrom(_, _, _, _)
EntriesFrom(list, a, b, entries) ==
    IF a > Len(list) THEN entries
    ELSE IF b > Len(list[a].results) THEN EntriesFrom(list, a + 1, 1, entries)
    ELSE EntriesFrom(list, a, b + 1,
                     Append(entries, [table |-> list[a].name, res |-> list[a].results[b]]))

Entries(list) == EntriesFrom(list, 1, 1, <<>>)

\* the tables and results the loops of aggregate_tables_data have passed
PassedTables ==
    [a \in 1..(IF ti <= Len(tables) THEN ti ELSE Len(tables)) |->
        IF a < ti THEN tables[a]
        ELSE BenchTable(tables[a].name, SubSeq(tables[a].results, 1, ri - 1))]

\* table name, benchmark name, profile and scenario, with '::' between them
ExpectedKey(e) ==
    e.table \o <<":", ":">> \o e.res.name \o <<":", ":">> \o e.res.profile
            \o <<":", ":">> \o e.res.scenario

WithKey(entries, key) == SelectSeq(entries, LAMBDA e : ExpectedKey(e) = key)

ChangesOf(entries, key) ==
    [i \in 1..Len(WithKey(entries, key)) |-> WithKey(entries, key)[i].res.change]

RawChangesOf(entries, key) ==
    [i \in 1..Len(WithKey(entries, key)) |->
        FSub(WithKey(entries, key)[i].res.after_raw, WithKey(entries, key)[i].res.before_raw)]

ExactRawChangesOf(entries, key) ==
    [i \in 1..Len(WithKey(entries, key)) |->
        WithKey(entries, key)[i].res.after_raw - WithKey(entries, key)[i].res.before_raw]

RECURSIVE ExactSum(_)
ExactSum(s) == IF s = <<>> THEN 0 ELSE s[1] + ExactSum(Tail(s))

\* no addition of the left-to-right sum of s is rounded
NoRounding(s) == \A n \in 1..Len(s) : Fl(ExactSum(SubSeq(s, 1, n))) = ExactSum(SubSeq(s, 1, n))

\* the process has ended and its run wrote the CSV
JustWroteCsv == pc = "idle" /\ "csv" \in wrote /\ aggregated.exists

Buckets(d, key) == {i \in 1..Len(d) : d[i].key = key}

(***************************************************************************)
(* C1.  In aggregate_tables_data, at every point of the accumulation, each *)
(* result the loops have passed has contributed its change and its         *)
(* (after_raw - before_raw) difference exactly once and to exactly one     *)
(* bucket, the bucket whose key is table name, benchmark name, profile and *)
(* scenario joined with '::': every bucket holds, in the order they were   *)
(* met, the values of exactly the passed results with its key, there is    *)
(* one bucket per key met, and no other bucket.                            *)
(***************************************************************************)
C1_EveryResultOnce ==
    pc = "aggregate_tables_data" =>
        LET passed == Entries(PassedTables)
        IN  /\ \A n \in 1..Len(passed) :
                   Cardinality(Buckets(benches_results, ExpectedKey(passed[n]))) = 1
            /\ \A i \in 1..Len(benches_results) :
                   LET bucket == benches_results[i]
                   IN  /\ WithKey(passed, bucket.key) # <<>>
                       /\ DictHas(bucket.val, "change")
                       /\ DictHas(bucket.val, "raw_change")
                       /\ DictGet(bucket.val, "change") = ChangesOf(passed, bucket.key)
                       /\ DictGet(bucket.val, "raw_change") = RawChangesOf(passed, bucket.key)

C1_Witness ==
    /\ pc = "aggregate_tables_data"
    /\ ti > Len(tables)
    /\ Len(benches_results) = 2
    /\ \E i \in 1..2 : Len(DictGet(benches_results[i].val, "change")) = 2

C9_OneRowPerCombination ==
    JustWroteCsv =>
        Len(csvFile.rows) =
            Cardinality({<<Entries(aggregated.tables)[n].table,
                           Entries(aggregated.tables)[n].res.name,
                           Entries(aggregated.tables)[n].res.profile,
                           Entries(aggregated.tables)[n].res.scenario>> :
                            n \in 1..Len(Entries(aggregated.tables))})

(***************************************************************************)
(* Notions the properties of the command driver are stated in.             *)
(***************************************************************************)
\* the pair of identifiers on the i-th line of the commits file
ExpectedPair(i) == IF i % 2 = 1 THEN <<(<<"a">>), <<"b">>>> ELSE <<(<<"b">>), <<"c">>>>

AllPairs == [i \in 1..Len(commitsFile) |-> ExpectedPair(i)]

TimedOut(n) == \E i \in 1..n : web[i].kind = "timeout"

\* what the pairs before position n leave in the accumulated list
RECURSIVE Accumulated(_)
Accumulated(n) ==
    IF n = 0 THEN <<>>
    ELSE Accumulated(n - 1)
         \o (IF web[n].kind = "page" THEN parse_benchmark_tables(web[n].page).tables ELSE <<>>)

Fetching == command \in {"download", "commits.txt"}

Ended == pc = "idle" /\ runs > 0

(***************************************************************************)
(* C4.  A fetch that ends with an alert adds no table to the accumulated   *)
(* list and does not end the process: download_tables keeps the tables of  *)
(* the earlier pairs unchanged and goes on with the next pair, in the      *)
(* order of the file; a run ends at an alert only when it was the fetch of *)
(* the last pair, and then with status 0; and a run none of whose fetches  *)
(* times out fetches every pair and ends with status 0, whatever alerts it *)
(* met.                                                                    *)
(***************************************************************************)
C4_AlertSkipsPair ==
    /\ pc = "download_tables" =>
           /\ exitStatus = -1
           /\ fetched = SubSeq(AllPairs, 1, idx - 1)
           /\ ~TimedOut(idx - 1)
           /\ tables = Accumulated(idx - 1)
           /\ idx > 1 /\ web[idx - 1].kind = "alert" => tables = Accumulated(idx - 2)
    /\ Ended /\ Fetching /\ fetched # <<>> /\ web[Len(fetched)].kind = "alert" =>
           /\ fetched = AllPairs
           /\ exitStatus = 0
    /\ Ended /\ Fetching /\ ~TimedOut(Len(commitsFile)) =>
           /\ fetched = AllPairs
           /\ exitStatus = 0

\* download_tables is at the third pair: the first gave tables, the second
\* an alert
C4_Witness ==
    /\ pc = "download_tables"
    /\ idx = 3
    /\ Len(commits) = 3
    /\ web[1].kind = "page"
    /\ web[2].kind = "alert"
    /\ web[3].kind = "page"
    /\ tables # <<>>

C10_OneModeOnly ==
    /\ command = "download" =>
           /\ wrote \subseteq {"snapshot"}
           /\ pc # "aggregate_tables_data"
           /\ ~aggregated.exists
           /\ Ended /\ exitStatus = 0 =>
                  /\ wrote = {"snapshot"}
                  /\ fetched = AllPairs
                  /\ snapshotFile.exists
    /\ command = "aggregate" =>
           /\ wrote \subseteq {"csv"}
           /\ pc # "download_tables"
           /\ fetched = <<>>
           /\ Ended /\ exitStatus = 0 =>
                  /\ wrote = {"csv"}
                  /\ aggregated.tables = PickleLoad(snapshotFile.data)
                  /\ csvFile = csvAggregate
    /\ command = "commits.txt" =>
           /\ wrote \subseteq {"csv"}
           /\ Ended /\ exitStatus = 0 =>
                  /\ wrote = {"csv"}
                  /\ fetched = AllPairs
                  /\ csvFile = csvCombined

\* a download run has ended after an aggregate run wrote a CSV: the CSV is
\* there, and not of this run
C10_Witness ==
    /\ Ended
    /\ command = "download"
    /\ exitStatus = 0
    /\ Len(fetched) = 3
    /\ csvFile.exists
    /\ csvFile.rows # <<>>
    /\ wrote = {"snapshot"}

(***************************************************************************)
(* C6.  parse_benchmark_tables never raises because of a table it cannot   *)
(* parse: a table without a body or with a malformed row is skipped whole  *)
(* (none of its rows is in the output, the rows before the malformed one   *)
(* included), every other table of the page is returned, in page order,    *)
(* and as many tables are returned as tables have a body and only rows     *)
(* that parse.                                                             *)
(***************************************************************************)
ParsableRow(row) ==
    /\ Len(row) >= 11
    /\ \A k \in {7, 8, 9} : ~parse_number(DropLast(row[k])).raised
    /\ \A k \in {10, 11} : ~parse_number(row[k]).raised

ParsableTable(table) ==
    table.hasBody /\ \A k \in 1..Len(table.rows) : ParsableRow(table.rows[k])

ExpectedTable(table) ==
    [name |-> table.id,
     results |-> [k \in 1..Len(table.rows) |-> parse_from_row(table.rows[k]).res]]

ExpectedTables(page) ==
    [n \in 1..Len(SelectSeq(page, ParsableTable)) |->
        ExpectedTable(SelectSeq(page, ParsableTable)[n])]

C6_UnparsableTableSkipped ==
    /\ pc = "download_tables" /\ idx = 2 =>
           /\ tables = ExpectedTables(web[1].page)
           /\ Len(tables) = Cardinality({n \in 1..Len(web[1].page) : ParsableTable(web[1].page[n])})
    /\ Ended => exitStatus = 0 /\ Len(fetched) = 1

\* the first table has a parsable row and then a malformed one, the second
\* table is returned
C6_Witness ==
    /\ pc = "download_tables"
    /\ idx = 2
    /\ Len(web[1].page) = 2
    /\ Len(web[1].page[1].rows) = 2
    /\ ParsableRow(web[1].page[1].rows[1])
    /\ ~ParsableRow(web[1].page[1].rows[2])
    /\ Len(tables) = 1

=============================================================================
